---- MODULE Spec2Model ----
(***************************************************************************)
(* Contact form of meekertechnologies-site.                                *)
(*                                                                         *)
(*   - the mail-relay function (escapeHtml, getAccessToken, sendEmail and  *)
(*     the exported handler),                                              *)
(*   - the earlier stub function api/contact/index.js,                     *)
(*   - the browser submit listener of assets/js/main.js.                   *)
(*                                                                         *)
(* A JavaScript string is a sequence of one-character strings.  Text that  *)
(* the code itself produces (an entity such as "&amp;", the "<br>" put in  *)
(* place of a newline, the pieces of the mail template, the fixed texts of *)
(* a response or of a log line) is a single element of more than one       *)
(* character, so an element of one character is always a character that    *)
(* came from the request.                                                  *)
(***************************************************************************)
EXTENDS Integers, Sequences, FiniteSets, TLC

\* ------------------------------------------------------------------ bounds
MaxLen == 2
MaxEmailLen == 5
MaxInterests == 2
MaxItemLen == 1
MaxSubmits == 2

\* ------------------------------------------------------- JavaScript values
\* A JSON value of the body: undefined, a string, or an object that has no
\* usable toString/valueOf (JSON {"toString": 1}); converting the latter to
\* a string throws a TypeError.
Absent == [t |-> "undefined", s |-> <<>>]
Unprintable == [t |-> "object", s |-> <<>>]
Str(s) == [t |-> "string", s |-> s]

SeqsUpTo(S, n) == UNION {[1..k -> S] : k \in 0..n}
Range(s) == {s[i] : i \in DOMAIN s}

TextChars == {"a", "&", "<", ">", "\"", "'", "\n"}
EmailChars == {"a", "@", ".", " "}
ItemChars == {"a", "<", "'"}
Whitespace == {" ", "\n"}

\* JavaScript truthiness (the operand of ! and of ||)
Truthy(v) == v.t = "object" \/ (v.t = "string" /\ v.s # <<>>)
\* String(v) / template-literal conversion; ToStringThrows(v) when it throws
ToStringThrows(v) == v.t = "object"
String(v) == IF v.t = "string" THEN v.s
             ELSE <<"u", "n", "d", "e", "f", "i", "n", "e", "d">>

NotProvided == <<"N", "o", "t", " ", "p", "r", "o", "v", "i", "d", "e", "d">>
NotSpecified == <<"N", "o", "t", " ", "s", "p", "e", "c", "i", "f", "i", "e", "d">>

\* ------------------------------------------------------------- escapeHtml
SpecialChars == {"&", "<", ">", "\"", "'"}

htmlEntities(char) ==
    CASE char = "&" -> "&amp;"
      [] char = "<" -> "&lt;"
      [] char = ">" -> "&gt;"
      [] char = "\"" -> "&quot;"
      [] char = "'" -> "&#39;"

\* the entity table without the apostrophe
escapeHtml_noApostrophe(text) ==
    IF ~Truthy(text) THEN <<>>
    ELSE [i \in 1..Len(String(text)) |->
             IF String(text)[i] \in SpecialChars \ {"'"}
             THEN htmlEntities(String(text)[i])
             ELSE String(text)[i]]

escapeHtml(text) ==
    IF ~Truthy(text) THEN <<>>
    ELSE [i \in 1..Len(String(text)) |->
             IF String(text)[i] \in SpecialChars
             THEN htmlEntities(String(text)[i])
             ELSE String(text)[i]]

\* safeMessage: .replace(/\n/g, '<br>')
replaceNewlines(s) == [i \in 1..Len(s) |-> IF s[i] = "\n" THEN "<br>" ELSE s[i]]

\* ------------------------------------------------------------- emailRegex
\* /^[^\s@]+@[^\s@]+\.[^\s@]+$/
NoSpaceNoAt(s, from, to) == \A k \in from..to : s[k] \notin (Whitespace \cup {"@"})

\* /^[^\s@]+@[^\s@]+$/ : the pattern without the dot of the domain
emailRegexTest_noDot(s) ==
    \E i \in 2..(Len(s) - 1) :
        /\ s[i] = "@"
        /\ NoSpaceNoAt(s, 1, i - 1)
        /\ NoSpaceNoAt(s, i + 1, Len(s))

emailRegexTest(s) ==
    \E i \in 2..(Len(s) - 3) :
        /\ s[i] = "@"
        /\ NoSpaceNoAt(s, 1, i - 1)
        /\ \E j \in (i + 2)..(Len(s) - 1) :
              /\ s[j] = "."
              /\ NoSpaceNoAt(s, i + 1, j - 1)
              /\ NoSpaceNoAt(s, j + 1, Len(s))

\* --------------------------------------------------------------- interests
\* interests: undefined, not an array (a string), or an array of values
NoInterests == [t |-> "undefined", items |-> <<>>]
ScalarInterests == [t |-> "string", items |-> <<>>]
Arr(items) == [t |-> "array", items |-> items]

RECURSIVE join(_)
join(items) ==
    IF Len(items) = 0 THEN <<>>
    ELSE IF Len(items) = 1 THEN String(items[1])
    ELSE String(items[1]) \o <<",", " ">> \o join(Tail(items))

joinThrows(items) == \E i \in DOMAIN items : ToStringThrows(items[i])

IsNonEmptyArray(interests) == interests.t = "array" /\ Len(interests.items) > 0
interestsTextOf(interests) ==
    IF IsNonEmptyArray(interests) THEN join(interests.items) ELSE NotSpecified

\* ---------------------------------------------------------------- requests
Methods == {"POST", "OPTIONS"}

allowedOrigins == <<"https://meekertechnologies.com",
                    "https://www.meekertechnologies.com",
                    "https://witty-hill-016919110.1.azurestaticapps.net">>
OtherOrigin == "https://example.org"
\* a header that is not sent reads as undefined; "" stands for it
OriginValues == {"", allowedOrigins[1], allowedOrigins[2], allowedOrigins[3], OtherOrigin}

Headers(o1, o2) == [present |-> TRUE, origin |-> o1, Origin |-> o2]
DefaultHeaders == Headers("", "")
\* a request object that has no headers property (only a direct call of the
\* exported function can pass one; the Functions host always supplies headers)
NoHeaders == [present |-> FALSE, origin |-> "", Origin |-> ""]

WideText == {Absent, Unprintable} \cup {Str(s) : s \in SeqsUpTo(TextChars, MaxLen)}
WideEmail == {Absent, Unprintable} \cup {Str(s) : s \in SeqsUpTo(EmailChars, MaxEmailLen)}
Items == {Unprintable} \cup {Str(s) : s \in SeqsUpTo(ItemChars, MaxItemLen)}
WideInterests == {NoInterests, ScalarInterests}
                     \cup {Arr(items) : items \in SeqsUpTo(Items, MaxInterests)}

ValidEmail == <<"<", "@", "a", ".", "a">>

\* The bodies every other field is varied against.
BaseBodies ==
    [kind : {"object"},
     name : {Absent, Str(<<"<">>)},
     email : {Str(<<"a">>), Str(ValidEmail)},
     company : {Absent},
     interests : {NoInterests},
     message : {Str(<<>>), Str(<<"a", "\n">>)},
     honeypot : {Absent, Str(<<"a">>)}]

\* req.body that is null (no body) or a string (a body that is not JSON):
\* destructuring either gives undefined for every field
EmptyBody(kind) ==
    [kind |-> kind, name |-> Absent, email |-> Absent, company |-> Absent,
     interests |-> NoInterests, message |-> Absent, honeypot |-> Absent]

\* Every field takes every value of its domain, against every base body.
Bodies ==
    BaseBodies
      \cup {EmptyBody("null"), EmptyBody("string")}
      \cup {[b EXCEPT !.name = v] : b \in BaseBodies, v \in WideText}
      \cup {[b EXCEPT !.message = v] : b \in BaseBodies, v \in WideText}
      \cup {[b EXCEPT !.company = v] : b \in BaseBodies, v \in WideText}
      \cup {[b EXCEPT !.honeypot = v] : b \in BaseBodies, v \in WideText}
      \cup {[b EXCEPT !.email = v] : b \in BaseBodies, v \in WideEmail}
      \cup {[b EXCEPT !.interests = v] : b \in BaseBodies, v \in WideInterests}

Requests ==
    [method : Methods, headers : {DefaultHeaders}, body : Bodies]
      \cup [method : Methods,
            headers : {Headers(o1, o2) : o1, o2 \in OriginValues},
            body : BaseBodies]

DirectRequests ==
    Requests \cup [method : Methods, headers : {NoHeaders}, body : BaseBodies]

\* process.env: "" stands for a variable that is not set
DefaultEnv == [SENDER_EMAIL |-> "", OWNER_EMAIL |-> ""]
Envs == [SENDER_EMAIL : {"", "sender@example.org"}, OWNER_EMAIL : {"", "owner@example.org"}]

Field(r, f) == r.body[f]

\* ------------------------------------------------------------ the handler
VARIABLES req, env, pc, res, log, tokenCalls, mailCalls, tokenResult,
          mailRequest, mailResult, rejection

serverVars == <<req, env, pc, res, log, tokenCalls, mailCalls, tokenResult,
                mailRequest, mailResult, rejection>>

\* the state of the page in the browser (the submit listener, below)
VARIABLES form, hasHoneypotInput, btn, formStatus, bpc, posts, data, location,
          submits, events, lastOutcome

browserVars == <<form, hasHoneypotInput, btn, formStatus, bpc, posts, data, location,
                 submits, events, lastOutcome>>

vars == <<req, env, pc, res, log, tokenCalls, mailCalls, tokenResult,
          mailRequest, mailResult, rejection,
          form, hasHoneypotInput, btn, formStatus, bpc, posts, data, location,
          submits, events, lastOutcome>>

L(text, arg) == [text |-> text, arg |-> arg]

\* const origin = req.headers.origin || req.headers.Origin; corsOrigin
corsOriginOf(r) ==
    LET origin == IF r.headers.origin # "" THEN r.headers.origin ELSE r.headers.Origin
    IN  IF origin \in Range(allowedOrigins) THEN origin ELSE allowedOrigins[1]

corsHeaders(r) ==
    [ContentType |-> "", AllowOrigin |-> corsOriginOf(r),
     AllowMethods |-> "POST, OPTIONS", AllowHeaders |-> "Content-Type"]

jsonHeaders(r) == [corsHeaders(r) EXCEPT !.ContentType = "application/json"]

\* context.res; a field the object literal does not have is <<>>
NoBody == [present |-> FALSE, success |-> FALSE, message |-> <<>>, error |-> <<>>, note |-> <<>>]
Unset == [set |-> FALSE, status |-> 0, headers |-> [ContentType |-> "", AllowOrigin |-> "",
          AllowMethods |-> "", AllowHeaders |-> ""], body |-> NoBody]
Response(status, headers, body) == [set |-> TRUE, status |-> status, headers |-> headers, body |-> body]

ThankYou == "Thank you for your inquiry. We will be in touch within 24 hours."
GenericError == "Unable to process your request. Please try again later."

SuccessBody == [present |-> TRUE, success |-> TRUE, message |-> <<ThankYou>>, error |-> <<>>, note |-> <<>>]
ErrorBody(text) == [present |-> TRUE, success |-> FALSE, message |-> <<>>, error |-> text, note |-> <<>>]

preflightResponse_ok(r) == Response(200, corsHeaders(r), NoBody)
preflightResponse(r) == Response(204, corsHeaders(r), NoBody)
spamResponse(r) == Response(200, jsonHeaders(r), SuccessBody)
requiredResponse(r) ==
    Response(400, jsonHeaders(r), ErrorBody(<<"Name, email, and message are required">>))
invalidEmailResponse(r) == Response(400, jsonHeaders(r), ErrorBody(<<"Invalid email format">>))
sentResponse(r) == Response(200, jsonHeaders(r), SuccessBody)

deliveryFailedResponse_leak(r, emailErrorMessage) ==
    Response(200, jsonHeaders(r), [SuccessBody EXCEPT !.note = emailErrorMessage])

\* catch (emailError): the message goes to the log, not into the response
deliveryFailedResponse(r, emailErrorMessage) ==
    Response(200, jsonHeaders(r),
             [SuccessBody EXCEPT !.note = <<"Email delivery may be delayed.">>])

\* catch (error)
serverErrorResponse(r, errorMessage) == Response(500, jsonHeaders(r), ErrorBody(<<GenericError>>))

ToPrimitiveError == <<"Cannot convert object to primitive value">>
NoHeadersError == <<"Cannot read properties of undefined (reading 'origin')">>

\* if (honeypot)
isSpam_validatedFirst(r) ==
    /\ Truthy(Field(r, "honeypot"))
    /\ Truthy(Field(r, "name")) /\ Truthy(Field(r, "email")) /\ Truthy(Field(r, "message"))

isSpam(r) == Truthy(Field(r, "honeypot"))

MissingRequired_noMessage(r) ==
    \/ ~Truthy(Field(r, "name"))
    \/ ~Truthy(Field(r, "email"))

\* if (!name || !email || !message)
MissingRequired(r) ==
    \/ ~Truthy(Field(r, "name"))
    \/ ~Truthy(Field(r, "email"))
    \/ ~Truthy(Field(r, "message"))

companyOrDefault(r) ==
    IF Truthy(Field(r, "company")) THEN Field(r, "company") ELSE Str(NotProvided)

\* the five context.log lines of the submission, in order
submissionLines(r) ==
    << <<"  Name: ", Field(r, "name")>>,
       <<"  Email: ", Field(r, "email")>>,
       <<"  Company: ", companyOrDefault(r)>>,
       <<"  Interests: ", Str(interestsTextOf(Field(r, "interests")))>>,
       <<"  Message: ", Field(r, "message")>> >>

\* the first of them whose template literal throws, 6 when none does
firstThrowingLine(r) ==
    LET bad == {i \in 1..5 : ToStringThrows(submissionLines(r)[i][2])}
    IN  IF bad = {} THEN 6 ELSE CHOOSE i \in bad : \A k \in bad : i <= k

submissionLog(r) ==
    <<L("Contact form submission:", <<>>)>> \o
    [i \in 1..(firstThrowingLine(r) - 1) |->
        L(submissionLines(r)[i][1], String(submissionLines(r)[i][2]))]

Received == <<L("Contact form submission received", <<>>)>>
Caught(message) == <<L("Error processing contact form:", message)>>

Outcome(p, response, lines, thrown) ==
    [pc |-> p, res |-> response, log |-> lines, rejection |-> thrown]

\* The exported function from its entry to its first await (the fetch of
\* getAccessToken) or to its return.
handlerStart(r) ==
    IF ~r.headers.present
    THEN Outcome("rejected", Unset, Received, NoHeadersError)
    ELSE IF r.method = "OPTIONS"
    THEN Outcome("done", preflightResponse(r), Received, <<>>)
    ELSE IF isSpam(r)
    THEN Outcome("done", spamResponse(r),
                 Received \o <<L("Honeypot triggered - likely spam", <<>>)>>, <<>>)
    ELSE IF MissingRequired(r)
    THEN Outcome("done", requiredResponse(r), Received, <<>>)
    ELSE IF ToStringThrows(Field(r, "email"))
    THEN Outcome("done", serverErrorResponse(r, ToPrimitiveError),
                 Received \o Caught(ToPrimitiveError), <<>>)
    ELSE IF ~emailRegexTest(String(Field(r, "email")))
    THEN Outcome("done", invalidEmailResponse(r), Received, <<>>)
    ELSE IF IsNonEmptyArray(Field(r, "interests")) /\ joinThrows(Field(r, "interests").items)
    THEN Outcome("done", serverErrorResponse(r, ToPrimitiveError),
                 Received \o Caught(ToPrimitiveError), <<>>)
    ELSE IF firstThrowingLine(r) <= 5
    THEN Outcome("done", serverErrorResponse(r, ToPrimitiveError),
                 Received \o submissionLog(r) \o Caught(ToPrimitiveError), <<>>)
    ELSE Outcome("awaitToken", Unset, Received \o submissionLog(r), <<>>)

\* ------------------------------------------------- getAccessToken, sendEmail
\* What a fetch can come to: the response is OK, it is not OK (an HTTP error
\* with a body text), the fetch rejects (network), or the OK body is not JSON.
\* text: the access_token of an OK response ("" when the JSON has none), the
\* body text of an HTTP error, the message of the error thrown otherwise.
FetchOutcome(kind, status, text) == [kind |-> kind, status |-> status, text |-> text]
NoOutcome == FetchOutcome("none", "", "")

TokenOutcomes ==
    {FetchOutcome("ok", "200", "eyJ0eXAi"),
     FetchOutcome("ok", "200", ""),
     FetchOutcome("http", "401", "invalid_client"),
     FetchOutcome("network", "", "fetch failed"),
     FetchOutcome("badjson", "200", "Unexpected token < in JSON")}

MailOutcomes ==
    {FetchOutcome("ok", "202", ""),
     FetchOutcome("http", "403", "ErrorAccessDenied"),
     FetchOutcome("network", "", "fetch failed")}

\* the message of the Error a failed getAccessToken throws
tokenErrorMessage(o) ==
    IF o.kind = "http"
    THEN <<"Failed to get access token: ", o.status, " - ", o.text>>
    ELSE <<o.text>>

\* the message of the Error a failed sendEmail throws
mailErrorMessage(o) ==
    IF o.kind = "http"
    THEN <<"Failed to send email: ", o.status, " - ", o.text>>
    ELSE <<o.text>>

senderEmail(e) == IF e.SENDER_EMAIL # "" THEN e.SENDER_EMAIL ELSE "adam@adammeeker.com"
ownerEmail(e) == IF e.OWNER_EMAIL # "" THEN e.OWNER_EMAIL ELSE "adam@adammeeker.com"

safeName(r) == escapeHtml(Field(r, "name"))
safeEmail(r) == escapeHtml(Field(r, "email"))
safeCompany(r) == escapeHtml(companyOrDefault(r))
safeInterests(r) == escapeHtml(Str(interestsTextOf(Field(r, "interests"))))
safeMessage(r) == replaceNewlines(escapeHtml(Field(r, "message")))

subjectOf(r) == <<"[Meeker Technologies] ">> \o safeInterests(r) \o <<" - from ">> \o safeName(r)

\* (the line breaks and the indentation of the template are left out)
htmlBodyOf(r) ==
    <<"<h2>New Contact Form Submission</h2><p><strong>From:</strong> ">>
      \o safeName(r) \o <<" (<a href=\"mailto:">> \o safeEmail(r) \o <<"\">">>
      \o safeEmail(r) \o <<"</a>)</p><p><strong>Company:</strong> ">>
      \o safeCompany(r) \o <<"</p><p><strong>Interested in:</strong> ">>
      \o safeInterests(r) \o <<"</p><hr><p><strong>Message:</strong></p><p>">>
      \o safeMessage(r)
      \o <<"</p><hr><p><em>Sent from meekertechnologies.com contact form</em></p>">>

\* the request sendEmail posts to graph.microsoft.com
NoMail == [sent |-> FALSE, from |-> "", bearer |-> "", subject |-> <<>>,
           contentType |-> "", content |-> <<>>, to |-> "", saveToSentItems |-> FALSE]
sendEmailRequest(accessToken, fromEmail, toEmail, subject, htmlBody) ==
    [sent |-> TRUE, from |-> fromEmail, bearer |-> accessToken, subject |-> subject,
     contentType |-> "HTML", content |-> htmlBody, to |-> toEmail,
     saveToSentItems |-> FALSE]

\* --------------------------------------------------------------- the steps
InitServer ==
    /\ \/ req \in Requests /\ env = DefaultEnv
       \/ req \in [method : {"POST"}, headers : {DefaultHeaders}, body : BaseBodies]
            /\ env \in Envs
    /\ pc = "start"
    /\ res = Unset
    /\ log = <<>>
    /\ tokenCalls = 0
    /\ mailCalls = 0
    /\ tokenResult = NoOutcome
    /\ mailRequest = NoMail
    /\ mailResult = NoOutcome
    /\ rejection = <<>>

\* the host calls the exported function
Handler ==
    /\ pc = "start"
    /\ LET out == handlerStart(req)
       IN  /\ pc' = out.pc
           /\ res' = out.res
           /\ log' = out.log
           /\ rejection' = out.rejection
           /\ tokenCalls' = IF out.pc = "awaitToken" THEN tokenCalls + 1 ELSE tokenCalls
    /\ UNCHANGED <<req, env, mailCalls, tokenResult, mailRequest, mailResult>>
    /\ UNCHANGED browserVars

\* await getAccessToken() returns: the code up to the fetch of sendEmail
TokenReturned(o) ==
    /\ pc = "awaitToken"
    /\ o.kind = "ok"
    /\ tokenResult' = o
    /\ mailRequest' = sendEmailRequest(o.text, senderEmail(env), ownerEmail(env),
                                       subjectOf(req), htmlBodyOf(req))
    /\ mailCalls' = mailCalls + 1
    /\ pc' = "awaitMail"
    /\ UNCHANGED <<req, env, res, log, tokenCalls, mailResult, rejection>>
    /\ UNCHANGED browserVars

\* a failed token request asked for once more
TokenFailed_retry(o) ==
    /\ pc = "awaitToken"
    /\ o.kind # "ok"
    /\ tokenCalls < 2
    /\ tokenCalls' = tokenCalls + 1
    /\ UNCHANGED <<req, env, pc, res, log, mailCalls, tokenResult, mailRequest, mailResult,
                   rejection>>
    /\ UNCHANGED browserVars

\* the mail sent although the token request failed
TokenFailed_sendAnyway(o) ==
    /\ pc = "awaitToken"
    /\ o.kind # "ok"
    /\ tokenResult' = o
    /\ mailRequest' = sendEmailRequest("", senderEmail(env), ownerEmail(env),
                                       subjectOf(req), htmlBodyOf(req))
    /\ mailCalls' = mailCalls + 1
    /\ pc' = "awaitMail"
    /\ UNCHANGED <<req, env, res, log, tokenCalls, mailResult, rejection>>
    /\ UNCHANGED browserVars

\* await getAccessToken() throws: catch (emailError)
TokenFailed(o) ==
    /\ pc = "awaitToken"
    /\ o.kind # "ok"
    /\ tokenResult' = o
    /\ log' = log \o <<L("Email sending failed:", tokenErrorMessage(o))>>
    /\ res' = deliveryFailedResponse(req, tokenErrorMessage(o))
    /\ pc' = "done"
    /\ UNCHANGED <<req, env, tokenCalls, mailCalls, mailRequest, mailResult, rejection>>
    /\ UNCHANGED browserVars

\* await sendEmail(...) returns true
MailSent(o) ==
    /\ pc = "awaitMail"
    /\ o.kind = "ok"
    /\ mailResult' = o
    /\ log' = log \o <<L("Email sent successfully", <<>>)>>
    /\ res' = sentResponse(req)
    /\ pc' = "done"
    /\ UNCHANGED <<req, env, tokenCalls, mailCalls, tokenResult, mailRequest, rejection>>
    /\ UNCHANGED browserVars

\* await sendEmail(...) throws: catch (emailError)
MailFailed(o) ==
    /\ pc = "awaitMail"
    /\ o.kind # "ok"
    /\ mailResult' = o
    /\ log' = log \o <<L("Email sending failed:", mailErrorMessage(o))>>
    /\ res' = deliveryFailedResponse(req, mailErrorMessage(o))
    /\ pc' = "done"
    /\ UNCHANGED <<req, env, tokenCalls, mailCalls, tokenResult, mailRequest, rejection>>
    /\ UNCHANGED browserVars

\* ------------------------------------------- the stub, api/contact/index.js
\* It reads no honeypot and no method, sends nothing and awaits nothing, so
\* its response is a function of the request.  (Its 400 bodies have no
\* success property and its responses no CORS headers.)
StubHeaders(contentType) ==
    [ContentType |-> contentType, AllowOrigin |-> "", AllowMethods |-> "", AllowHeaders |-> ""]

stubContact(r) ==
    IF MissingRequired(r)
    THEN Outcome("done",
                 Response(400, StubHeaders(""), ErrorBody(<<"Name, email, and message are required">>)),
                 Received, <<>>)
    ELSE IF ToStringThrows(Field(r, "email"))
    THEN Outcome("rejected", Unset, Received, ToPrimitiveError)
    ELSE IF ~emailRegexTest(String(Field(r, "email")))
    THEN Outcome("done",
                 Response(400, StubHeaders(""), ErrorBody(<<"Invalid email format">>)),
                 Received, <<>>)
    ELSE Outcome("done", Response(200, StubHeaders("application/json"), SuccessBody),
                 Received \o <<L("Contact form data:", <<>>)>>, <<>>)

\* ------------------------------------------------ the browser submit listener
\* The values of the form controls; interest is the list of ticked boxes and
\* website the hidden honeypot input.
EmptyForm == [name |-> "", email |-> "", company |-> "", interest |-> <<>>,
              message |-> "", website |-> ""]
FormValues ==
    [name |-> {"", "Ann"}, email |-> {"", "ann@example.org"}, company |-> {"", "Acme"},
     interest |-> {<<>>, <<"AI", "Cloud">>}, message |-> {"", "Hello"},
     website |-> {"", "http://spam.example"}]
Forms == [name : FormValues.name, email : FormValues.email, company : FormValues.company,
          interest : FormValues.interest, message : FormValues.message,
          website : FormValues.website]

NoData == [name |-> "", email |-> "", company |-> "", interests |-> <<>>, message |-> ""]
\* new FormData(contactForm): the five fields of the POST body
collect(f) == [name |-> f.name, email |-> f.email, company |-> f.company,
               interests |-> f.interest, message |-> f.message]

Button(disabled, textDisplay, loadingDisplay) ==
    [disabled |-> disabled, btnText |-> textDisplay, btnLoading |-> loadingDisplay]
\* the button as the page's markup shows it before any submit
InitialButton == Button(FALSE, "inline", "none")

Status(text, className, display) == [text |-> text, className |-> className, display |-> display]

\* the mailto: link of the fallback (each part goes through encodeURIComponent)
NoLocation == [set |-> FALSE, subjectName |-> "", name |-> "", email |-> "", company |-> "",
               interests |-> <<>>, message |-> ""]
mailto(d) ==
    [set |-> TRUE, subjectName |-> d.name, name |-> d.name, email |-> d.email,
     company |-> IF d.company # "" THEN d.company ELSE "Not provided",
     interests |-> IF d.interests # <<>> THEN d.interests ELSE <<"Not specified">>,
     message |-> IF d.message # "" THEN d.message ELSE "No message provided"]

\* if (honeypot && honeypot.value)
honeypotFilled(f, hasInput) == hasInput /\ f.website # ""

PostOutcomes == {"ok", "notok", "network"}

InitBrowserIdle ==
    /\ form = EmptyForm
    /\ hasHoneypotInput = TRUE
    /\ btn = InitialButton
    /\ formStatus = Status("", "form-status", "")
    /\ bpc = "idle"
    /\ posts = 0
    /\ data = NoData
    /\ location = NoLocation
    /\ submits = 0
    /\ events = <<>>
    /\ lastOutcome = "none"

\* the user changes one control of the form
Fill(f, v) ==
    /\ submits < MaxSubmits
    /\ form[f] # v
    /\ form' = [form EXCEPT ![f] = v]
    /\ UNCHANGED <<hasHoneypotInput, btn, formStatus, bpc, posts, data, location,
                   submits, events, lastOutcome>>
    /\ UNCHANGED serverVars

\* A submit event, up to the return of the honeypot branch or to the await of
\* fetch.  The browser fires no submit event through a disabled submit button.
Submit ==
    /\ bpc = "idle"
    /\ ~btn.disabled
    /\ submits < MaxSubmits
    /\ submits' = submits + 1
    /\ lastOutcome' = "none"
    /\ IF honeypotFilled(form, hasHoneypotInput)
       THEN /\ formStatus' = [formStatus EXCEPT !.text = "Thank you for your message!",
                                                !.className = "form-status success"]
            /\ form' = EmptyForm
            /\ events' = <<"reset">>
            /\ UNCHANGED <<btn, bpc, posts, data, location>>
       ELSE /\ btn' = Button(TRUE, "none", "inline")
            /\ formStatus' = [formStatus EXCEPT !.className = "form-status", !.display = "none"]
            /\ data' = collect(form)
            /\ posts' = posts + 1
            /\ events' = <<"disable", "post">>
            /\ bpc' = "awaitPost"
            /\ UNCHANGED <<form, location>>
    /\ UNCHANGED hasHoneypotInput
    /\ UNCHANGED serverVars

\* the button left as it is when the fetch rejected
afterPost_notOnError(o, b) == IF o = "network" THEN b ELSE Button(FALSE, "inline", "none")

\* the rest of the listener once the fetch has settled: re-enable the button
afterPost(o, b) == Button(FALSE, "inline", "none")

PostSettled(o) ==
    /\ bpc = "awaitPost"
    /\ lastOutcome' = o
    /\ IF o = "ok"
       THEN /\ formStatus' = [formStatus EXCEPT !.text = "Thank you! We'll be in touch within 24 hours.",
                                                !.className = "form-status success"]
            /\ form' = EmptyForm
            /\ events' = events \o <<"reset", "enable">>
            /\ UNCHANGED location
       ELSE /\ location' = mailto(data)
            /\ formStatus' = [formStatus EXCEPT !.text = "Opening your email client...",
                                                !.className = "form-status success"]
            /\ events' = events \o <<"mailto", "enable">>
            /\ UNCHANGED form
    /\ btn' = afterPost(o, btn)
    /\ bpc' = "idle"
    /\ UNCHANGED <<hasHoneypotInput, posts, data, submits>>
    /\ UNCHANGED serverVars

InitServerIdle ==
    /\ req = [method |-> "POST", headers |-> DefaultHeaders, body |-> EmptyBody("null")]
    /\ env = DefaultEnv
    /\ pc = "idle"
    /\ res = Unset
    /\ log = <<>>
    /\ tokenCalls = 0
    /\ mailCalls = 0
    /\ tokenResult = NoOutcome
    /\ mailRequest = NoMail
    /\ mailResult = NoOutcome
    /\ rejection = <<>>

InitBrowser ==
    /\ InitServerIdle
    /\ form \in Forms
    /\ hasHoneypotInput \in BOOLEAN
    /\ btn = InitialButton
    /\ formStatus = Status("", "form-status", "")
    /\ bpc = "idle"
    /\ posts = 0
    /\ data = NoData
    /\ location = NoLocation
    /\ submits = 0
    /\ events = <<>>
    /\ lastOutcome = "none"

NextBrowser ==
    \/ \E f \in DOMAIN FormValues : \E v \in FormValues[f] : Fill(f, v)
    \/ Submit
    \/ \E o \in PostOutcomes : PostSettled(o)

SpecBrowser == InitBrowser /\ [][NextBrowser]_vars

\* --------------------------------------------------------- specifications
\* requests as the Functions host delivers them
Init == InitServer /\ InitBrowserIdle

Next ==
    \/ Handler
    \/ \E o \in TokenOutcomes : TokenReturned(o)
    \/ \E o \in TokenOutcomes : TokenFailed(o)
    \/ \E o \in MailOutcomes : MailSent(o)
    \/ \E o \in MailOutcomes : MailFailed(o)

Spec == Init /\ [][Next]_vars

\* the exported function called with any request object
InitDirect ==
    /\ req \in DirectRequests
    /\ env = DefaultEnv
    /\ pc = "start"
    /\ res = Unset
    /\ log = <<>>
    /\ tokenCalls = 0
    /\ mailCalls = 0
    /\ tokenResult = NoOutcome
    /\ mailRequest = NoMail
    /\ mailResult = NoOutcome
    /\ rejection = <<>>
    /\ InitBrowserIdle

SpecDirect == InitDirect /\ [][Next]_vars

TypeOK ==
    /\ pc \in {"idle", "start", "awaitToken", "awaitMail", "done", "rejected"}
    /\ tokenCalls \in Nat
    /\ mailCalls \in Nat
    /\ bpc \in {"idle", "awaitPost"}

\* ------------------------------------------------------------- properties
\* the words of the claims, independent of the code's tests
Missing(v) == v.t = "undefined" \/ (v.t = "string" /\ v.s = <<>>)
IsText(v) == v.t = "string"
Preflight == req.method = "OPTIONS"
HoneypotEmpty == Missing(Field(req, "honeypot"))
RequiredMissing ==
    Missing(Field(req, "name")) \/ Missing(Field(req, "email")) \/ Missing(Field(req, "message"))

\* local part, "@", domain with a "." inside it; no space and no second "@"
Positions(s, c) == {i \in DOMAIN s : s[i] = c}
SyntacticallyValid(s) ==
    /\ Range(s) \cap Whitespace = {}
    /\ Cardinality(Positions(s, "@")) = 1
    /\ LET at == CHOOSE i \in Positions(s, "@") : TRUE
       IN  /\ at > 1
           /\ \E j \in Positions(s, ".") : at + 1 < j /\ j < Len(s)

EmailInvalid ==
    /\ IsText(Field(req, "email"))
    /\ Field(req, "email").s # <<>>
    /\ ~SyntacticallyValid(Field(req, "email").s)

\* every field of the body that the handler converts to text is text
AllText ==
    /\ \A f \in {"name", "email", "message"} : IsText(Field(req, f))
    /\ ~ToStringThrows(Field(req, "company"))
    /\ \A i \in DOMAIN Field(req, "interests").items : IsText(Field(req, "interests").items[i])

ValidInput ==
    /\ ~RequiredMissing
    /\ IsText(Field(req, "email"))
    /\ SyntacticallyValid(Field(req, "email").s)
    /\ HoneypotEmpty

NoOutboundCall == tokenCalls = 0 /\ mailCalls = 0

\* C1 as stated: every handled request with name, email or message missing
\* is answered 400.
C1_MissingAlways400 ==
    (pc = "done" /\ RequiredMissing) => res.status = 400

\* C1: a request that is no preflight and has an empty honeypot, with name,
\* email or message missing (absent or empty), is answered 400 with the
\* required-fields error and without any outbound call; the stub answers
\* 400 to every request with one of them missing.
C1_MissingGives400 ==
    /\ (pc = "done" /\ RequiredMissing /\ ~Preflight /\ HoneypotEmpty) =>
          /\ res.set /\ res.status = 400
          /\ res.body.error = <<"Name, email, and message are required">>
          /\ ~res.body.success
          /\ NoOutboundCall
    /\ RequiredMissing => stubContact(req).res.status = 400

C1_Witness ==
    /\ pc = "done" /\ ~Preflight /\ HoneypotEmpty
    /\ ~Missing(Field(req, "name")) /\ ~Missing(Field(req, "email"))
    /\ Field(req, "message") = Str(<<>>)
    /\ res.status = 400

C3_ValidAlwaysOneOfEach ==
    (pc = "done" /\ ValidInput) => tokenCalls = 1 /\ mailCalls = 1

\* C3: valid input of text fields on a request that is no preflight makes
\* exactly one token request, and exactly one mail-send request when the
\* token request succeeded, none when it failed; never more than one of
\* either.
C3_ValidOneTokenOneMail ==
    /\ tokenCalls <= 1 /\ mailCalls <= 1
    /\ (pc = "done" /\ ValidInput /\ AllText /\ ~Preflight) =>
          /\ tokenCalls = 1
          /\ mailCalls = IF tokenResult.kind = "ok" THEN 1 ELSE 0
          /\ mailCalls = 1 => mailRequest.sent

C3_Witness ==
    /\ pc = "done" /\ ValidInput /\ AllText /\ ~Preflight
    /\ tokenCalls = 1 /\ mailCalls = 1 /\ mailResult.kind = "ok"

\* the upstream text of the step that failed
TokenStepFailed == tokenResult.kind \notin {"none", "ok"}
MailStepFailed == mailResult.kind \notin {"none", "ok"}
UpstreamText == IF TokenStepFailed THEN tokenResult.text ELSE mailResult.text
BodyTexts == Range(res.body.message) \cup Range(res.body.error) \cup Range(res.body.note)

\* C4: after a failure of the token step or of the mail-send step (a response
\* that is not OK, or a thrown error) the response is 200 with the success
\* flag, the log has a failure line carrying the upstream text, and no part
\* of the response body is text of the upstream error.
C4_FailureReportedAsSuccess ==
    (TokenStepFailed \/ MailStepFailed) =>
        /\ pc = "done"
        /\ res.set /\ res.status = 200 /\ res.body.success
        /\ \E i \in DOMAIN log :
              log[i].text = "Email sending failed:" /\ UpstreamText \in Range(log[i].arg)
        /\ UpstreamText \notin BodyTexts
        /\ BodyTexts = {ThankYou, "Email delivery may be delayed."}

C4_Witness ==
    /\ pc = "done" /\ mailResult.kind = "http" /\ res.status = 200 /\ res.body.success

\* C5: every exception raised while a request is handled, a request object
\* without headers included, ends in a 500 response with the fixed generic
\* message, and no invocation ends without a response.
ExceptionRaised ==
    \/ rejection # <<>>
    \/ \E i \in DOMAIN log : log[i].text = "Error processing contact form:"
C5_EveryExceptionGives500 ==
    /\ pc \in {"done", "rejected"} => res.set
    /\ (pc \in {"done", "rejected"} /\ ExceptionRaised) =>
          res.status = 500 /\ res.body.error = <<GenericError>>

\* C6 as stated: every request whose email is present and syntactically
\* invalid is answered 400 and makes no outbound call.
C6_InvalidEmailAlways400 ==
    (pc = "done" /\ EmailInvalid) => res.status = 400 /\ NoOutboundCall

\* C6: a request that is no preflight and has an empty honeypot, whose email
\* is present and syntactically invalid, is answered 400 and makes no token
\* or mail-send request; the stub answers 400 to every request with such an
\* email.
C6_InvalidEmailGives400 ==
    /\ (EmailInvalid /\ ~Preflight /\ HoneypotEmpty) =>
          /\ pc \in {"start", "done"}
          /\ NoOutboundCall
          /\ pc = "done" => res.set /\ res.status = 400 /\ ~res.body.success
          /\ (pc = "done" /\ ~RequiredMissing) => res.body.error = <<"Invalid email format">>
    /\ EmailInvalid => stubContact(req).res.status = 400

C6_Witness ==
    /\ pc = "done" /\ ~Preflight /\ HoneypotEmpty /\ ~RequiredMissing
    /\ Field(req, "email").s = <<"a", "@", "a">>
    /\ res.status = 400

\* what an entity, or the "<br>" of a newline, stands for
Decode(e) ==
    CASE e = "&amp;" -> "&"
      [] e = "&lt;" -> "<"
      [] e = "&gt;" -> ">"
      [] e = "&quot;" -> "\""
      [] e = "&#39;" -> "'"
      [] e = "<br>" -> "\n"
      [] OTHER -> e
Entities == {"&amp;", "&lt;", "&gt;", "&quot;", "&#39;"}
InputChars ==
    TextChars \cup EmailChars \cup ItemChars \cup Range(NotProvided)
        \cup Range(NotSpecified) \cup {","}
\* the mail content without the text of the template
UserPart(content) ==
    SelectSeq(content, LAMBDA e : e \in InputChars \cup Entities \cup {"<br>"})
Decoded(s) == [i \in 1..Len(s) |-> Decode(s[i])]
CompanyText ==
    IF Missing(Field(req, "company")) THEN NotProvided ELSE Field(req, "company").s
InterestsText == interestsTextOf(Field(req, "interests"))

\* C7: the mail sent to the relay holds no raw & < > " ' in its content or
\* subject, and its content, the template taken away and the entities and
\* "<br>" read back, is exactly the name, the email (twice), the company, the
\* joined interests and the message of the request: every character of them
\* was escaped, and "<br>" for a newline of the message is the only markup
\* added.
C7_MailContentEscaped ==
    mailRequest.sent =>
        /\ Range(mailRequest.content) \cap SpecialChars = {}
        /\ Range(mailRequest.subject) \cap SpecialChars = {}
        /\ "\n" \notin Range(safeMessage(req))
        /\ Decoded(UserPart(mailRequest.content)) =
              Field(req, "name").s \o Field(req, "email").s \o Field(req, "email").s
                  \o CompanyText \o InterestsText \o Field(req, "message").s
        /\ Decoded(UserPart(mailRequest.subject)) = InterestsText \o Field(req, "name").s

C7_Witness ==
    /\ mailRequest.sent
    /\ "'" \in Range(Field(req, "name").s)
    /\ "&#39;" \in Range(mailRequest.content)
    /\ "<br>" \in Range(mailRequest.content)

ValidationPassed ==
    /\ ~RequiredMissing
    /\ IsText(Field(req, "email")) /\ SyntacticallyValid(Field(req, "email").s)
RequestOrigin ==
    IF req.headers.origin # "" THEN req.headers.origin ELSE req.headers.Origin

\* C8: a finished invocation has answered with one of 200, 400, 500, 204.
\* A preflight gets 204 with the CORS headers and nothing else happens: no
\* body, no validation, no honeypot check, no outbound call.  204 is given to
\* a preflight only, 200 only to spam or to input that passed validation,
\* 400 only when a required field is missing or the email is invalid, 500
\* only when converting a field to text threw.
C8_StatusByCase ==
    pc = "done" =>
        /\ res.set /\ res.status \in {200, 400, 500, 204}
        /\ Preflight =>
              /\ res.status = 204
              /\ ~res.body.present
              /\ res.headers.AllowOrigin \in Range(allowedOrigins)
              /\ RequestOrigin \in Range(allowedOrigins) => res.headers.AllowOrigin = RequestOrigin
              /\ res.headers.AllowMethods = "POST, OPTIONS"
              /\ res.headers.AllowHeaders = "Content-Type"
              /\ NoOutboundCall
              /\ log = Received
        /\ res.status = 204 => Preflight
        /\ res.status = 200 => res.body.success /\ (~HoneypotEmpty \/ (ValidationPassed /\ AllText))
        /\ res.status = 400 => HoneypotEmpty /\ (RequiredMissing \/ EmailInvalid)
        /\ res.status = 500 => ~AllText /\ HoneypotEmpty /\ res.body.error = <<GenericError>>

C8_Witness ==
    /\ pc = "done" /\ Preflight /\ ~HoneypotEmpty /\ RequiredMissing
    /\ res.status = 204
    /\ req.headers.Origin = allowedOrigins[2]
    /\ res.headers.AllowOrigin = allowedOrigins[2]

\* C9: in one invocation the mail-send request is issued only in the step in
\* which the single token request returns successfully, never after a failed
\* token request; the response is set only in a step that leaves no call
\* pending, and is not set while one is; no call is made a second time.
C9_SequentialNoRetry ==
    [][ /\ mailCalls' # mailCalls =>
              /\ pc = "awaitToken" /\ tokenCalls = 1
              /\ tokenResult'.kind = "ok"
              /\ mailCalls = 0 /\ mailCalls' = 1
        /\ tokenCalls' # tokenCalls => tokenCalls = 0 /\ tokenCalls' = 1 /\ mailCalls' = 0
        /\ TokenStepFailed' => mailCalls' = 0 /\ pc' = "done"
        /\ res' # res => ~res.set /\ res'.set /\ pc' = "done"
        /\ pc' \in {"awaitToken", "awaitMail"} => ~res'.set
        /\ (pc' = "done" /\ mailCalls' = 1) => mailResult'.kind # "none"
      ]_vars

C9_Witness ==
    /\ pc = "done" /\ tokenCalls = 1 /\ mailCalls = 1
    /\ tokenResult.kind = "ok" /\ mailResult.kind = "network"
    /\ res.set

\* C10: a submit event with the honeypot input filled makes no POST and leaves
\* the button as it was; any other disables the button and then issues one
\* POST; the button is disabled for as long as the POST is in flight; when the
\* POST settles (OK, not OK, or the fetch rejected) the button is enabled
\* again, and the last two open the mailto link.
SubmitEvent == submits' = submits + 1
C10_ButtonAroundPost ==
    [][ /\ (SubmitEvent /\ honeypotFilled(form, hasHoneypotInput)) =>
              posts' = posts /\ btn' = btn /\ bpc' = "idle"
        /\ (SubmitEvent /\ ~honeypotFilled(form, hasHoneypotInput)) =>
              /\ posts' = posts + 1
              /\ events' = <<"disable", "post">>
              /\ btn'.disabled /\ bpc' = "awaitPost"
        /\ posts' # posts => SubmitEvent
        /\ bpc' = "awaitPost" => btn'.disabled
        /\ (bpc = "awaitPost" /\ bpc' = "idle") =>
              /\ ~btn'.disabled
              /\ lastOutcome' \in PostOutcomes
              /\ lastOutcome' # "ok" => location'.set /\ location'.name = data.name
              /\ lastOutcome' = "ok" => location' = location
      ]_vars

C10_Witness ==
    /\ bpc = "idle" /\ submits = 2 /\ posts = 1
    /\ lastOutcome = "network" /\ ~btn.disabled /\ location.set

====
